---- MODULE Spec2Model ----
(***************************************************************************)
(* The two HTTP servers of the repository:                                 *)
(*   "rest": src/unnamed/part_000, GET /tools and POST /tools/:toolName    *)
(*   "sse" : src/server.js, GET /sse, POST /messages and the MCP handlers  *)
(*           tools/list and tools/call registered on mcpServer.            *)
(* Each is a program of its own (each ends in app.listen); Init chooses    *)
(* which one is running.  A step is one callback of the event loop: a      *)
(* request handler up to its first await, or the continuation of an await. *)
(***************************************************************************)
EXTENDS Integers, Sequences, FiniteSets, Bags, TLC

\* ---------------------------------------------------------------- bounds
MaxInflight == 2   \* tool calls awaiting Shopify at the same time
MaxConns    == 2   \* GET /sse requests that get as far as creating a transport
MaxEdges    == 1   \* edges in a Shopify list answer

VARIABLES
  program,          \* which server file is running: "rest" or "sse"
  API_KEY,          \* process.env.API_KEY (<<>> when unset)
  hasCreds,         \* SHOPIFY_ACCESS_TOKEN and MYSHOPIFY_DOMAIN are both set
  tools,            \* part_000: const tools
  toolDefinitions,  \* server.js: const toolDefinitions
  toolHandlers,     \* server.js: const toolHandlers
  currentTransport, \* server.js: let currentTransport (0 is null)
  conns,            \* server.js: the SSE connections, by transport id
  calls,            \* the bag of tool calls suspended at `await fetch(...)`
  req,              \* the request (or the awaited call) the last step served
  res               \* what the last step answered

vars == <<program, API_KEY, hasCreds, tools, toolDefinitions, toolHandlers,
          currentTransport, conns, calls, req, res>>

\* ------------------------------------------------------- JavaScript values
Undefined == [t |-> "undefined"]
Null      == [t |-> "null"]

\* Strings are sequences of pieces; Bearer is the piece 'Bearer '.
Bearer == "Bearer "
Unset  == << >>
Secret == <<"sec", "ret">>
Wrong  == <<"wrong">>

RECURSIVE ReplaceFirst(_, _)
\* String.prototype.replace(piece, ''): drops the first occurrence only,
\* wherever it stands.
ReplaceFirst(s, piece) ==
  IF s = << >> THEN << >>
  ELSE IF Head(s) = piece THEN Tail(s)
  ELSE <<Head(s)>> \o ReplaceFirst(Tail(s), piece)

NoHeaders == [xApiKey |-> << >>, authorization |-> << >>]

\* req.headers['x-api-key'] || req.headers['authorization']?.replace('Bearer ', '')
\* (an absent header and an empty one are both falsy: both are << >>)
PresentedApiKey(headers) ==
  IF headers.xApiKey # << >> THEN headers.xApiKey
  ELSE ReplaceFirst(headers.authorization, Bearer)

\* authenticate: TRUE when next() is called, FALSE when it answers 401.
Authenticate(headers) ==
  LET apiKey == PresentedApiKey(headers)
  IN  ~(apiKey = << >> \/ apiKey # API_KEY)

\* ------------------------------------------------------------ tool registry
\* What both files declare for each tool.  An inputSchema is a JSON literal
\* nothing in the code reads: it is named by the property it declares first.
\* handler names the function (part_000 leaves the functions anonymous;
\* the names are those of server.js).
ToolTable ==
  [ n \in {"get-products", "get-product-by-id", "get-customers",
           "get-orders", "get-order-by-id"} |->
    CASE n = "get-products" ->
           [name |-> n, description |-> "Get all products or search by title",
            inputSchema |-> "{searchTitle, limit}", handler |-> "executeGetProducts"]
      [] n = "get-product-by-id" ->
           [name |-> n, description |-> "Get a specific product by ID",
            inputSchema |-> "{productId!}", handler |-> "executeGetProductById"]
      [] n = "get-customers" ->
           [name |-> n, description |-> "Get customers or search by name/email",
            inputSchema |-> "{searchQuery, limit}", handler |-> "executeGetCustomers"]
      [] n = "get-orders" ->
           [name |-> n, description |-> "Get orders with optional filtering",
            inputSchema |-> "{limit}", handler |-> "executeGetOrders"]
      [] n = "get-order-by-id" ->
           [name |-> n, description |-> "Get a specific order by ID",
            inputSchema |-> "{orderId!}", handler |-> "executeGetOrderById"] ]

ToolNames == DOMAIN ToolTable

\* part_000: const tools = { name: {name, description, inputSchema, handler} }
InitTools ==
  [n \in ToolNames |-> [t |-> "tool"] @@ ToolTable[n]]

\* server.js: const toolDefinitions = [ {name, description, inputSchema}, ... ]
InitToolDefinitions ==
  { [name |-> ToolTable[n].name, description |-> ToolTable[n].description,
     inputSchema |-> ToolTable[n].inputSchema] : n \in ToolNames }

\* server.js: const toolHandlers = { name: function }
InitToolHandlers ==
  [n \in ToolNames |-> [t |-> "function", fn |-> ToolTable[n].handler]]

\* Members every object literal inherits from Object.prototype.
ObjectPrototype ==
  [ k \in {"constructor", "__proto__"} |->
    IF k = "constructor" THEN [t |-> "function", fn |-> "Object"]
    ELSE [t |-> "object", fn |-> "Object.prototype"] ]

\* obj[key] on an object literal: own property, else the prototype chain.
Get(obj, key) ==
  IF key \in DOMAIN obj THEN obj[key]
  ELSE IF key \in DOMAIN ObjectPrototype THEN ObjectPrototype[key]
  ELSE Undefined

Truthy(v) == v.t \notin {"undefined", "null"}

\* ------------------------------------------------------------ tool handlers
\* The GraphQL operation a handler sends, the field of data it reads, and
\* whether it reads an edge list (edges.map(e => e.node)) or one object.
HandlerQuery(fn) ==
  CASE fn = "executeGetProducts"    -> [query |-> "getProducts",  field |-> "products",  list |-> TRUE]
    [] fn = "executeGetProductById" -> [query |-> "getProduct",   field |-> "product",   list |-> FALSE]
    [] fn = "executeGetCustomers"   -> [query |-> "getCustomers", field |-> "customers", list |-> TRUE]
    [] fn = "executeGetOrders"      -> [query |-> "getOrders",    field |-> "orders",    list |-> TRUE]
    [] fn = "executeGetOrderById"   -> [query |-> "getOrder",     field |-> "order",     list |-> FALSE]

DefaultLimit == 10

\* The { query, variables } a handler passes to shopifyGraphQL:
\* first: args.limit || 10 for the lists, id: args.productId / args.orderId.
HandlerFetch(fn, args) ==
  LET q == HandlerQuery(fn)
  IN  [query |-> q.query,
       first |-> IF q.list THEN (IF args.limit # 0 THEN args.limit ELSE DefaultLimit) ELSE 0,
       id    |-> IF q.list THEN "" ELSE args.id]

\* ------------------------------------------------------------------ Shopify
Node(id) == [t |-> "object", id |-> id]

FieldOfQuery(query) ==
  CASE query = "getProducts"  -> "products"
    [] query = "getProduct"   -> "product"
    [] query = "getCustomers" -> "customers"
    [] query = "getOrders"    -> "orders"
    [] query = "getOrder"     -> "order"

IsListQuery(query) == query \in {"getProducts", "getCustomers", "getOrders"}

EdgeLists ==
  { [i \in 1..k |-> [node |-> Node(IF i = 1 THEN "n1" ELSE IF i = 2 THEN "n2" ELSE "n3")]] :
      k \in 0..MaxEdges }

\* result.data of a 200 answer to the fetch: at most `first` edges, the
\* object with the id asked for or null; or no data member at all.
ShopifyData(fetch) ==
  { Undefined } \cup
  IF IsListQuery(fetch.query)
  THEN { [t |-> "data", field |-> FieldOfQuery(fetch.query), value |-> [edges |-> e]] :
           e \in { x \in EdgeLists : Len(x) <= fetch.first } }
  ELSE { [t |-> "data", field |-> FieldOfQuery(fetch.query), value |-> v] :
           v \in {Node(fetch.id), Null} }

\* How an `await fetch(...)` can settle: the promise rejects, the status is
\* not ok, the body holds errors, or the body holds data.
ShopifyOutcomes(fetch) ==
  { [k |-> "reject", text |-> "fetch failed"],
    [k |-> "http",   text |-> "Unauthorized"],
    [k |-> "errors", text |-> "[{message}]"] } \cup
  { [k |-> "data", data |-> d] : d \in ShopifyData(fetch) }

Throw(message) == [ok |-> FALSE, message |-> message]
Return(value)  == [ok |-> TRUE, value |-> value]

\* shopifyGraphQL after `await fetch`: throws or returns result.data.
shopifyGraphQL(outcome) ==
  CASE outcome.k = "reject" -> Throw(<<outcome.text>>)
    [] outcome.k = "http"   -> Throw(<<"Shopify API error: ", outcome.text>>)
    [] outcome.k = "errors" -> Throw(<<"GraphQL errors: ", outcome.text>>)
    [] outcome.k = "data"   -> Return(outcome.data)

\* The handler after `await shopifyGraphQL`: data.<field>.edges.map(e => e.node)
\* or data.<field>; reading a member of undefined throws a TypeError.
HandlerReturn(fn, settled) ==
  LET q == HandlerQuery(fn)
  IN  IF ~settled.ok THEN settled
      ELSE IF settled.value.t = "undefined" \/ settled.value.field # q.field
        THEN Throw(<<"Cannot read properties of undefined">>)
      ELSE IF q.list
        THEN Return([t |-> "array",
                     items |-> [i \in 1..Len(settled.value.value.edges) |->
                                  settled.value.value.edges[i].node]])
      ELSE Return(settled.value.value)

\* JSON.stringify(value, null, 2): the text that encodes value.
Stringify(value) == [json |-> value]

\* ------------------------------------------------------------ calling a value
\* handler(args): a value that is no function throws a TypeError; Object(args)
\* returns args at once; a tool handler sends its fetch and awaits it.
CallHandler(f, args) ==
  IF f.t # "function" THEN [k |-> "throw", message |-> <<"is not a function">>]
  ELSE IF f.fn = "Object" THEN [k |-> "return", value |-> [t |-> "object", id |-> args.id]]
  ELSE [k |-> "await", fn |-> f.fn, fetch |-> HandlerFetch(f.fn, args)]

\* part_000: tool.handler, read from whatever tools[name] gave.
HandlerOf(tool) ==
  IF tool.t = "tool" THEN [t |-> "function", fn |-> tool.handler] ELSE Undefined

\* --------------------------------------------------------------- the inputs
NoArgs == [limit |-> 0, id |-> ""]

\* The headers tried: none, a wrong x-api-key beside a right Authorization,
\* a right Authorization, and an Authorization with 'Bearer ' inside it.
HeaderChoices ==
  { NoHeaders,
    [xApiKey |-> Wrong, authorization |-> <<Bearer>> \o Secret],
    [xApiKey |-> << >>, authorization |-> <<Bearer>> \o Secret],
    [xApiKey |-> << >>, authorization |-> <<"sec", Bearer, "ret">>] }

\* The calls tried: a list tool, a by-id tool with two ids, a name nobody
\* has, and two names every object inherits.
CallInputs ==
  { [name |-> "get-products", args |-> NoArgs] } \cup
  { [name |-> "get-product-by-id", args |-> [limit |-> 0, id |-> i]] : i \in {"p1", "p2"} } \cup
  { [name |-> n, args |-> NoArgs] : n \in {"no-such-tool", "constructor", "__proto__"} }

Messages ==
  { [method |-> "tools/list", name |-> "", args |-> NoArgs] } \cup
  { [method |-> "tools/call", name |-> c.name, args |-> c.args] : c \in CallInputs }

\* ------------------------------------------------------------------- state
ConnIds == 1..MaxConns

NoFetch == [query |-> "", first |-> 0, id |-> ""]
NoConn  == [phase |-> "none", open |-> FALSE]

FreeConns == { c \in ConnIds : conns[c].phase = "none" }
Least(S)  == CHOOSE x \in S : \A y \in S : x <= y

\* The routes behind `authenticate` in the running file.
Routes ==
  IF program = "rest" THEN {"GET /tools", "POST /tools/:toolName"}
  ELSE {"GET /sse", "POST /messages"}

\* What a step served: a request (its route, headers, tool name and
\* arguments), or the call whose fetch settled (the fetch it had sent and
\* what its tool handler then threw or returned).
Request(route, headers, name, args) ==
  [route |-> route, headers |-> headers, name |-> name, args |-> args,
   fetch |-> NoFetch, returned |-> Return(Undefined)]

\* An answer: the HTTP status (0: nothing is sent in this step), what it is,
\* its body, whether a tool handler was invoked and how many Shopify
\* requests were sent in this step.
Answer(status, kind, body) ==
  [status |-> status, kind |-> kind, body |-> body, ran |-> FALSE, sent |-> 0]

NoBody == [t |-> "undefined"]

\* The registry of the file that is not running.
NotLoaded == << >>

Init ==
  /\ program \in {"rest", "sse"}
  /\ API_KEY \in {Unset, Secret}
  /\ hasCreds \in BOOLEAN
  /\ tools = IF program = "rest" THEN InitTools ELSE NotLoaded
  /\ toolDefinitions = IF program = "sse" THEN InitToolDefinitions ELSE {}
  /\ toolHandlers = IF program = "sse" THEN InitToolHandlers ELSE NotLoaded
  /\ currentTransport = 0
  /\ conns = [c \in ConnIds |-> NoConn]
  /\ calls = EmptyBag
  /\ req = Request("", NoHeaders, "", NoArgs)
  /\ res = Answer(0, "none", NoBody)

Registry == <<program, API_KEY, hasCreds, tools, toolDefinitions, toolHandlers>>

\* authenticate answering res.status(401).json({ error: 'Unauthorized' })
\* without next(): the route's handler, and with it the tool name and the
\* body, is never looked at.
Unauthorized(route, headers) ==
  /\ route \in Routes
  /\ ~Authenticate(headers)
  /\ req' = Request(route, headers, "", NoArgs)
  /\ res' = Answer(401, "unauthorized", [error |-> <<"Unauthorized">>])
  /\ UNCHANGED <<Registry, currentTransport, conns, calls>>

\* The handler has sent its fetch and is suspended at the await: it joins
\* the calls in flight.
Suspend(route, headers, name, args, called, status) ==
  /\ BagCardinality(calls) < MaxInflight
  /\ calls' = calls (+) SetToBag({[name |-> name, fn |-> called.fn, fetch |-> called.fetch,
                                   overdue |-> FALSE]})
  /\ req' = Request(route, headers, name, args)
  /\ res' = [Answer(status, "pending", NoBody) EXCEPT !.ran = TRUE, !.sent = 1]
  /\ UNCHANGED <<Registry, currentTransport, conns>>

Respond(route, headers, name, args, answer) ==
  /\ req' = Request(route, headers, name, args)
  /\ res' = answer
  /\ UNCHANGED <<Registry, currentTransport, conns, calls>>

\* ------------------------------------------------- part_000: the REST server
\* Object.values(tools) without the map: the entries as they are stored.
ListToolsRaw == { tools[n] : n \in DOMAIN tools }

\* Object.values(tools).map(t => ({name, description, inputSchema}))
ListTools ==
  { [name |-> tools[n].name, description |-> tools[n].description,
     inputSchema |-> tools[n].inputSchema] : n \in DOMAIN tools }

\* app.get('/tools', authenticate, ...)
GetTools(headers) ==
  /\ program = "rest"
  /\ Authenticate(headers)
  /\ Respond("GET /tools", headers, "", NoArgs, Answer(200, "tools", [tools |-> ListTools]))

\* app.post('/tools/:toolName', authenticate, ...) up to `await tool.handler(req.body)`
PostTool(headers) ==
  /\ program = "rest"
  /\ Authenticate(headers)
  /\ \E input \in CallInputs :
     LET route  == "POST /tools/:toolName"
         name   == input.name
         args   == input.args
         tool   == Get(tools, name)
         called == CallHandler(HandlerOf(tool), args)
     IN
     IF ~Truthy(tool)
       THEN Respond(route, headers, name, args,
                    Answer(404, "not-found", [error |-> <<"Tool not found: ", name>>]))
     ELSE IF called.k = "throw"
       THEN Respond(route, headers, name, args,
                    Answer(500, "failure", [success |-> FALSE, error |-> called.message]))
     ELSE Suspend(route, headers, name, args, called, 0)

\* ---------------------------------------------------- server.js: the SSE server
\* A transport can take a message once connect() has started it and until
\* its response stream closes.
Usable(c) == conns[c].phase = "connected" /\ conns[c].open

\* app.get('/sse', authenticate, ...) up to `await mcpServer.connect(currentTransport)`
SseGet(headers) ==
  /\ program = "sse"
  /\ Authenticate(headers)
  /\ IF ~hasCreds
       THEN Respond("GET /sse", headers, "", NoArgs,
                    Answer(500, "missing-credentials",
                           [error |-> <<"Missing SHOPIFY_ACCESS_TOKEN or MYSHOPIFY_DOMAIN">>]))
     ELSE /\ FreeConns # {}
          /\ LET c == Least(FreeConns) IN
             /\ currentTransport' = c
             /\ conns' = [conns EXCEPT ![c] = [phase |-> "connecting", open |-> TRUE]]
             /\ req' = Request("GET /sse", headers, "", NoArgs)
             /\ res' = Answer(0, "connecting", NoBody)
             /\ UNCHANGED <<Registry, calls>>

\* The continuation of `await mcpServer.connect(...)`: req.on('close', ...) is
\* registered, or the catch block answers 500 unless the headers are sent.
ConnectSettles(c, ok, headersSent) ==
  /\ program = "sse"
  /\ conns[c].phase = "connecting"
  /\ req' = Request("connect settles", NoHeaders, "", NoArgs)
  /\ IF ok
     THEN /\ conns' = [conns EXCEPT ![c].phase = "connected"]
          /\ res' = Answer(IF conns[c].open THEN 200 ELSE 0, "connected", NoBody)
     ELSE /\ conns' = [conns EXCEPT ![c] =
                 [phase |-> "failed", open |-> conns[c].open /\ headersSent]]
          /\ res' = Answer(IF headersSent \/ ~conns[c].open THEN 0 ELSE 500, "connect-failed",
                           [error |-> <<"connect">>])
  /\ UNCHANGED <<Registry, currentTransport, calls>>

\* A listener that logs the disconnect and forgets to clear currentTransport.
OnCloseKeeps(c) == currentTransport

\* What the 'close' listener of connection c leaves in currentTransport.
OnClose(c) == 0

\* The client closes SSE connection c.  The listener of line 386 exists only
\* once connect() has returned: phase "closed" says that it has run.
Close(c) ==
  /\ program = "sse"
  /\ conns[c].open
  /\ conns' = [conns EXCEPT ![c] =
       IF conns[c].phase = "connected" THEN [phase |-> "closed", open |-> FALSE]
       ELSE [phase |-> conns[c].phase, open |-> FALSE]]
  /\ currentTransport' = IF conns[c].phase = "connected" THEN OnClose(c) ELSE currentTransport
  /\ req' = Request("close", NoHeaders, "", NoArgs)
  /\ res' = Answer(0, "closed", NoBody)
  /\ UNCHANGED <<Registry, calls>>

\* mcpServer.setRequestHandler('tools/list', ...)
ToolsList == [tools |-> toolDefinitions]

\* mcpServer.setRequestHandler('tools/call', ...) up to `await handler(args)`
ToolsCall(headers, name, args) ==
  LET route   == "POST /messages"
      handler == Get(toolHandlers, name)
      called  == CallHandler(handler, args)
  IN
  IF ~Truthy(handler)
    THEN Respond(route, headers, name, args,
                 Answer(202, "rpc-error", [error |-> <<"Unknown tool: ", name>>]))
  ELSE IF called.k = "throw"
    THEN Respond(route, headers, name, args,
                 [Answer(202, "tool-error",
                         [content |-> <<[type |-> "text", text |-> <<"Error: ">> \o called.message]>>,
                          isError |-> TRUE]) EXCEPT !.ran = TRUE])
  ELSE IF called.k = "return"
    THEN Respond(route, headers, name, args,
                 [Answer(202, "tool-result",
                         [content |-> <<[type |-> "text", text |-> Stringify(called.value)]>>])
                    EXCEPT !.ran = TRUE])
  ELSE Suspend(route, headers, name, args, called, 202)

\* A POST /messages that accepts the message although no transport is there.
NoTransportAccepted(headers) ==
  Respond("POST /messages", headers, "", NoArgs, Answer(202, "accepted", NoBody))

\* What POST /messages does with currentTransport null: the body is not
\* looked at.
NoTransport(headers) ==
  Respond("POST /messages", headers, "", NoArgs,
          Answer(503, "no-transport", [error |-> <<"No active SSE connection">>]))

\* app.post('/messages', authenticate, ...): the message goes to
\* currentTransport.handlePostMessage, which hands it to the MCP handler, or
\* throws before reading it when the transport has no open stream.
PostMessages(headers) ==
  LET route == "POST /messages" IN
  /\ program = "sse"
  /\ Authenticate(headers)
  /\ IF currentTransport = 0 THEN NoTransport(headers)
     ELSE IF ~Usable(currentTransport)
       THEN Respond(route, headers, "", NoArgs,
                    Answer(500, "transport-error", [error |-> <<"SSE connection not established">>]))
     ELSE \E msg \in Messages :
            IF msg.method = "tools/list"
              THEN Respond(route, headers, msg.name, msg.args, Answer(202, "tools", ToolsList))
            ELSE ToolsCall(headers, msg.name, msg.args)

\* ------------------------------------------------ the continuation of a call
\* A continuation that finds its call in a variable all calls share: another
\* call in flight has overwritten it.
ResumedShared(call) ==
  IF \E c \in BagToSet(calls) : c # call
  THEN CHOOSE c \in BagToSet(calls) : c # call
  ELSE call

\* The call whose continuation runs when the fetch of `call` settles: each
\* await resumes its own closure with the value of its own promise.
Resumed(call) == call

\* A catch block that answers a failure as an empty success.
SettleSwallowing(returned) ==
  IF program = "rest"
  THEN Answer(200, "success",
              [success |-> TRUE, result |-> IF returned.ok THEN returned.value ELSE Null])
  ELSE Answer(0, "tool-result",
              [content |-> <<[type |-> "text",
                              text |-> Stringify(IF returned.ok THEN returned.value ELSE Null)]>>])

\* What the call answers once its handler has thrown or returned:
\* part_000 lines 196-205, server.js lines 325-343.
Settle(returned) ==
  IF program = "rest"
  THEN IF returned.ok
       THEN Answer(200, "success", [success |-> TRUE, result |-> returned.value])
       ELSE Answer(500, "failure", [success |-> FALSE, error |-> returned.message])
  ELSE IF returned.ok
       THEN Answer(0, "tool-result",
                   [content |-> <<[type |-> "text", text |-> Stringify(returned.value)]>>])
       ELSE Answer(0, "tool-error",
                   [content |-> <<[type |-> "text", text |-> <<"Error: ">> \o returned.message]>>,
                    isError |-> TRUE])

\* Without credentials the URL or the token is undefined: no data comes back.
Reachable(outcome) == hasCreds \/ outcome.k \in {"reject", "http"}

\* The ways the fetch of a call in flight can settle now.
Settling(call) == { o \in ShopifyOutcomes(call.fetch) : Reachable(o) }

\* `await fetch(...)` of a call in flight settles with outcome; the handler
\* finishes and the call is answered.
FetchSettles(call, outcome) ==
  LET mine == Resumed(call) IN
  /\ BagIn(call, calls)
  /\ outcome \in Settling(call)
  /\ calls' = calls (-) SetToBag({mine})
  /\ req' = [route |-> "completion", headers |-> NoHeaders, name |-> mine.name,
             args |-> NoArgs, fetch |-> mine.fetch,
             returned |-> HandlerReturn(mine.fn, shopifyGraphQL(outcome))]
  /\ res' = Settle(HandlerReturn(mine.fn, shopifyGraphQL(outcome)))
  /\ UNCHANGED <<Registry, currentTransport, conns>>

\* The timeout period of a call in flight ends.  Neither file arms a timer
\* or passes a signal to fetch: nothing runs.
TimeoutElapses(call) ==
  /\ BagIn(call, calls)
  /\ ~call.overdue
  /\ calls' = (calls (-) SetToBag({call})) (+) SetToBag({[call EXCEPT !.overdue = TRUE]})
  /\ UNCHANGED <<Registry, currentTransport, conns, req, res>>

Next ==
  \/ \E r \in Routes, h \in HeaderChoices : Unauthorized(r, h)
  \/ \E h \in HeaderChoices : GetTools(h)
  \/ \E h \in HeaderChoices : PostTool(h)
  \/ \E h \in HeaderChoices : SseGet(h)
  \/ \E c \in ConnIds, ok \in BOOLEAN, headersSent \in BOOLEAN : ConnectSettles(c, ok, headersSent)
  \/ \E c \in ConnIds : Close(c)
  \/ \E h \in HeaderChoices : PostMessages(h)
  \/ \E c \in BagToSet(calls) : \E o \in Settling(c) : FetchSettles(c, o)

Spec == Init /\ [][Next]_vars

\* The same servers with time passing.
NextTimed == Next \/ \E c \in BagToSet(calls) : TimeoutElapses(c)

SpecTimed == Init /\ [][NextTimed]_vars

\* ================================================================ the claims
\* The names listTools() returns in the running file.
ListedNames ==
  IF program = "rest" THEN { d.name : d \in ListTools }
  ELSE { d.name : d \in ToolsList.tools }

\* The last step was a callTool that got past authenticate and, in server.js,
\* past the transport to the tools/call handler.
CallToolServed ==
  /\ req.route \in {"POST /tools/:toolName", "POST /messages"}
  /\ req.name # ""
  /\ res.kind \notin {"unauthorized", "no-transport", "transport-error"}

UnknownToolOutcome == res.kind \in {"not-found", "rpc-error"}

\* C1: a callTool ends with the unknown-tool outcome (404 on POST
\* /tools/:toolName, the thrown 'Unknown tool' in tools/call) exactly when its
\* name is not one listTools() returns, and then no tool handler has run and
\* nothing was sent to Shopify.
C1_UnknownToolIffNotListed ==
  CallToolServed =>
    /\ UnknownToolOutcome <=> req.name \notin ListedNames
    /\ UnknownToolOutcome => (~res.ran /\ res.sent = 0)

Payload == IF program = "rest" THEN res.body.result ELSE res.body.content[1].text.json

\* C3: when the fetch of a known tool's call settles, the call is answered
\* with exactly what the tool handler returned, as a success, or, when the
\* handler threw, with a failure that carries the error's message and is no
\* success; no further request is sent to Shopify for it.
C3_PayloadOrTypedFailure ==
  req.route = "completion" =>
    /\ req.name \in ToolNames
    /\ res.sent = 0
    /\ IF req.returned.ok
       THEN /\ res.kind \in {"success", "tool-result"}
            /\ program = "rest" => (res.status = 200 /\ res.body.success)
            /\ program = "sse" => "isError" \notin DOMAIN res.body
            /\ Payload = req.returned.value
       ELSE /\ res.kind \in {"failure", "tool-error"}
            /\ program = "rest" =>
                 (res.status = 500 /\ ~res.body.success /\ res.body.error = req.returned.message)
            /\ program = "sse" =>
                 (res.body.isError /\ res.body.content[1].text = <<"Error: ">> \o req.returned.message)

\* C3 witness: a GraphQL error reaches the caller of a known tool as a failure.
C3_Witness ==
  /\ req.route = "completion"
  /\ ~req.returned.ok
  /\ req.returned.message = <<"GraphQL errors: ", "[{message}]">>
  /\ res.kind \in {"failure", "tool-error"}

\* What Shopify can have produced for a fetch, as the handler hands it on.
ProducedFor(fetch, payload) ==
  IF fetch.query \in {"getProduct", "getOrder"}
  THEN payload \in {Null, Node(fetch.id)}
  ELSE payload.t = "array" /\ Len(payload.items) <= fetch.first

C5_TimeoutRejects ==
  \A c \in BagToSet(calls) : ~c.overdue

\* C6: a call is in flight only until its response, its timeout or the end
\* of its transport completes it: none is in flight past its timeout, and in
\* server.js none is in flight once no transport is usable any more.
C6_CompletedOnce ==
  \A call \in BagToSet(calls) :
    /\ ~call.overdue
    /\ program = "sse" => \E c \in ConnIds : Usable(c)

\* A transport that was connected has closed, and its listener has run.
Died == \E c \in ConnIds : conns[c].phase = "closed"

Ready == currentTransport # 0 /\ Usable(currentTransport)

Descriptors ==
  { [name |-> ToolTable[n].name, description |-> ToolTable[n].description,
     inputSchema |-> ToolTable[n].inputSchema] : n \in ToolNames }

\* C8: every listTools() answer is the same five descriptors, each made of
\* name, description and inputSchema and nothing else, and no step changes
\* the registries they are read from.
C8_ToolListStable ==
  /\ res.kind = "tools" =>
       /\ res.body.tools = Descriptors
       /\ \A d \in res.body.tools : DOMAIN d = {"name", "description", "inputSchema"}
  /\ program = "rest" => tools = InitTools
  /\ program = "sse" =>
       (toolDefinitions = InitToolDefinitions /\ toolHandlers = InitToolHandlers)

\* C8 witness: a listTools() answered after a failed call, with a call in flight.
C8_Witness ==
  /\ res.kind = "tools"
  /\ res.status \in {200, 202}
  /\ BagCardinality(calls) >= 1

\* C9: currentTransport is null only when no connected SSE connection is
\* open, and otherwise names the transport of a connection that is open.
C9_TransportIsALiveConnection ==
  /\ currentTransport = 0 => ~\E c \in ConnIds : Usable(c)
  /\ currentTransport # 0 => conns[currentTransport].open

\* The key a request presents, as C10 words it: the x-api-key header, else
\* the Authorization header without a 'Bearer ' it starts with.
StatedKey(headers) ==
  IF headers.xApiKey # << >> THEN headers.xApiKey
  ELSE IF headers.authorization # << >> /\ Head(headers.authorization) = Bearer
    THEN Tail(headers.authorization)
  ELSE headers.authorization

\* C10: a request to an authenticated route whose key is absent or is not
\* API_KEY (always so while API_KEY is unset) is answered 401; no tool
\* handler runs and nothing is sent to Shopify for it.
C10_BadKeyIs401 ==
  (/\ req.route \in {"GET /tools", "POST /tools/:toolName", "GET /sse", "POST /messages"}
   /\ (StatedKey(req.headers) = << >> \/ StatedKey(req.headers) # API_KEY))
    => (res.status = 401 /\ ~res.ran /\ res.sent = 0)

====
